---- MODULE Spec2Model ----
(***************************************************************************)
(* A model of the PostgreSQL backend of denokv (src/postgres): the         *)
(* atomic_write transaction of backend.rs, statement by statement, against *)
(* a READ COMMITTED database with row locks and the primary-key and        *)
(* foreign-key constraints of the schema, the lease protocol of the queue  *)
(* (dequeue_next_message, PostgresMessageHandle::finish), and the claims   *)
(* of the specification about them.                                        *)
(*                                                                         *)
(* A transaction's uncommitted writes live in its own overlay and become   *)
(* the committed tables at COMMIT; every statement reads the committed     *)
(* tables as they are when it runs, plus its own overlay (READ COMMITTED,  *)
(* the default of tokio_postgres' conn.transaction()).  A writing          *)
(* statement waits while another transaction holds the row.  The driver's  *)
(* binding of Rust values to SQL parameter and column types is not part    *)
(* of the model: a statement acts on the tables as its SQL text says.      *)
(***************************************************************************)
EXTENDS Integers, Sequences, FiniteSets, TLC

\* ------------------------------------------------------------------ bounds
\* One byte holds the values 0 .. ByteMod-1 (256 in the program).
ByteMod == 2
\* A u64 is WordLen bytes long (8 in the program).
WordLen == 2
\* A versionstamp is VsLen bytes long (10 in the program).
VsLen == 1
\* Most checks, mutations and enqueues in one atomic_write.
MaxChecks == 1
MaxMutations == 2
MaxEnqueues == 1
\* Most rows ever inserted into queue_messages.
MaxMessages == 2
\* The clock (NOW(), in ms) runs from 0 to MaxTime.
MaxTime == 1
\* keys of one watch
MaxWatchKeys == 2
\* The pool's max_size: PostgresConfig.max_connections.
max_connections == 2

WordMod == ByteMod ^ WordLen

Writers == {"w1", "w2"}
Consumers == {"c1", "c2"}
Streams == {"s1", "s2"}

\* ------------------------------------------------------------ byte strings
Last(s) == s[Len(s)]

\* u64::to_le_bytes / i64::to_le_bytes of a value already reduced mod 2^64.
ToLeBytes(n) == [i \in 1..WordLen |-> (n \div (ByteMod ^ (i - 1))) % ByteMod]

RECURSIVE FromLeBytesFrom(_, _)
FromLeBytesFrom(b, i) ==
  IF i > Len(b) THEN 0 ELSE b[i] * (ByteMod ^ (i - 1)) + FromLeBytesFrom(b, i + 1)

\* u64::from_le_bytes
FromLeBytes(b) == FromLeBytesFrom(b, 1)

\* `*v as i64` and i64::from_le_bytes: the two's-complement reading of a word.
AsI64(n) == IF 2 * n >= WordMod THEN n - WordMod ELSE n

\* i64 -> the word with the same bits.
AsU64(x) == x % WordMod

I64Min == AsI64(WordMod - (WordMod \div 2))
I64Max == (WordMod - 1) \div 2

\* Versionstamps the random fill is let produce here: all bytes 0, all bytes 1.
Versionstamps == {[i \in 1..VsLen |-> b] : b \in {0, 1}}
NoVs == << >>

\* ------------------------------------------------------------------ values
V8(d) == [tag |-> "V8", data |-> d, n |-> 0]
Bytes(d) == [tag |-> "Bytes", data |-> d, n |-> 0]
U64(n) == [tag |-> "U64", data |-> << >>, n |-> n]

\* encode_value with the tags of KvValue::V8 and KvValue::Bytes exchanged.
encode_value_tags_exchanged(value) ==
  CASE value.tag = "V8" -> <<value.data, 3>>
    [] value.tag = "Bytes" -> <<value.data, 1>>
    [] value.tag = "U64" -> <<ToLeBytes(value.n), 2>>

\* encode_value: the stored bytes and the encoding tag.
encode_value(value) ==
  CASE value.tag = "V8" -> <<value.data, 1>>
    [] value.tag = "Bytes" -> <<value.data, 3>>
    [] value.tag = "U64" -> <<ToLeBytes(value.n), 2>>

\* ------------------------------------------------------------ kv_store rows
\* expires_at IS NULL
NoExpiry == -1
NoRow == [value |-> << >>, enc |-> 0, vs |-> NoVs, exp |-> NoExpiry]
Untouched == [value |-> << >>, enc |-> -1, vs |-> NoVs, exp |-> NoExpiry]
MkRow(bytes, enc, vs) == [value |-> bytes, enc |-> enc, vs |-> vs, exp |-> NoExpiry]

\* Keys written by mutations, and the prefixes of SetSuffixVersionstampedKey.
WriteKeys == {<<0>>}
SuffixPrefixes == {<<0>>}
KeySpace == WriteKeys \cup {p \o v : p \in SuffixPrefixes, v \in Versionstamps}

\* Inputs.
SetValues == {Bytes(<<0>>), U64(1)}
SuffixValues == {Bytes(<<0>>)}
Operands == {U64(1), U64(WordMod - 1), Bytes(<<0>>), V8(<<0>>)}
NoneCheck(k) == [key |-> k, some |-> FALSE, vs |-> NoVs]
SomeCheck(k, v) == [key |-> k, some |-> TRUE, vs |-> v]
Checks == {NoneCheck(k) : k \in WriteKeys}
            \cup {SomeCheck(k, v) : k \in WriteKeys, v \in Versionstamps}
Payloads == {<<1>>}
Deadlines == 0..MaxTime
\* Enqueue.backoff_schedule: the delays before the retries.
BackoffSchedules == {<<1>>}

\* ------------------------------------------------------------------- state
VARIABLES
  kv,              \* kv_store, committed: key -> row or NoRow
  queue_messages,  \* queue_messages, committed: set of rows (see Committed)
  queue_running,   \* queue_running, committed: set of [message_id, deadline]
  now,             \* NOW()
  issued,          \* how many ids gen_random_uuid() has given to committed rows
  w,               \* per caller of atomic_write: where it is and its transaction
  c,               \* per caller of dequeue_next_message / holder of a handle
  key_watchers,    \* PostgresNotifierInner.key_watchers: the keys with a sender
  streams,         \* per stream returned by watch: where it is, what it holds
  f                \* the call of the facade under way: its loop and its counts

vars == <<kv, queue_messages, queue_running, now, issued, w, c, key_watchers, streams, f>>

NoSel == [key |-> << >>, new |-> 0]
NoOnly == [kind |-> "none", key |-> << >>, x |-> 0]
EmptyTx == [k \in KeySpace |-> Untouched]

IdleWriter ==
  [pc |-> "idle", vs |-> NoVs, checks |-> << >>, nmut |-> 0,
   only |-> NoOnly, sel |-> NoSel, tx |-> EmptyTx, enq |-> << >>,
   result |-> "pending", dirty |-> FALSE, muts |-> << >>]

\* A PostgresMessageHandle: the message's id and payload, how the call of
\* finish on it ended, if there was one, and whether finish was called again
\* after a call that returned Ok.
NoHandle == [id |-> 0, payload |-> << >>, last |-> "none", again |-> FALSE]
NoMessage ==
  [id |-> 0, payload |-> << >>, deadline |-> 0, backoff_schedule |-> << >>,
   retry_count |-> 0]
IdleConsumer ==
  [pc |-> "idle", snap |-> << >>, sel |-> NoMessage, handle |-> NoHandle,
   result |-> "pending"]

\* A stream of watch: the keys it was given, its subscriptions, the outputs of
\* the sampling under way, the subscription it waits on, and what it yielded
\* last.
NoEntry == [key |-> << >>, value |-> V8(<< >>), versionstamp |-> NoVs]
IdleStream ==
  [pc |-> "idle", keys |-> << >>, subs |-> << >>, out |-> << >>, i |-> 0,
   last |-> << >>]

\* An error of the pool, of the driver or of the server: its SQLSTATE code, if
\* it has one, and its message.
NoCause == [code |-> "", msg |-> ""]
NoError == [kind |-> "none", cause |-> NoCause]

\* A call of snapshot_read, atomic_write or dequeue_next_message on Postgres:
\* `attempt` of its own loop, `inner` the attempt of get_connection_with_retry,
\* how often it called pool.get(), slept and met an error, the error met last,
\* the ranges asked for and the outputs of the attempt under way.
IdleFacade ==
  [pc |-> "idle", op |-> "none", attempt |-> 0, inner |-> 0, acquired |-> 0,
   sleeps |-> 0, errors |-> 0, last_error |-> NoError, requests |-> << >>,
   outputs |-> << >>, result |-> "pending"]

Init ==
  /\ kv = [k \in KeySpace |-> NoRow]
  /\ queue_messages = {}
  /\ queue_running = {}
  /\ now = 0
  /\ issued = 0
  /\ w = [p \in Writers |-> IdleWriter]
  /\ c = [q \in Consumers |-> IdleConsumer]
  /\ key_watchers = {}
  /\ streams = [st \in Streams |-> IdleStream]
  /\ f = IdleFacade

\* -------------------------------------------------------------- read_range
\* Byte-lexicographic order of BYTEA keys: a < b.
RECURSIVE KeyLess(_, _)
KeyLess(a, b) ==
  IF a = << >> THEN b # << >>
  ELSE IF b = << >> THEN FALSE
  ELSE IF a[1] # b[1] THEN a[1] < b[1]
  ELSE KeyLess(Tail(a), Tail(b))

KeyLeq(a, b) == a = b \/ KeyLess(a, b)

\* The keys of ks in the order of the scan.
RECURSIVE Ordered(_, _)
Ordered(ks, reverse) ==
  IF ks = {} THEN << >>
  ELSE LET first == CHOOSE k \in ks : \A o \in ks :
                      IF reverse THEN KeyLeq(o, k) ELSE KeyLeq(k, o)
       IN <<first>> \o Ordered(ks \ {first}, reverse)

\* The KvValue of a stored row (the match on value_encoding).
decode_value(row) ==
  CASE row.enc = 1 -> V8(row.value)
    [] row.enc = 2 -> U64(FromLeBytes(row.value))
    [] row.enc = 3 -> Bytes(row.value)

\* read_range with `key <= $2` in place of `key < $2`.
read_range_through_end(store, start, end, limit, reverse) ==
  LET hit == {k \in DOMAIN store :
                store[k] # NoRow /\ KeyLeq(start, k) /\ KeyLeq(k, end)}
      ord == Ordered(hit, reverse)
  IN [i \in 1..(IF Len(ord) < limit THEN Len(ord) ELSE limit) |->
        [key |-> ord[i], value |-> decode_value(store[ord[i]]),
         versionstamp |-> store[ord[i]].vs]]

\* read_range on the committed table `store`: the entries of the rows with
\* start <= key < end, in scan order, at most `limit` of them.
read_range(store, start, end, limit, reverse) ==
  LET hit == {k \in DOMAIN store :
                store[k] # NoRow /\ KeyLeq(start, k) /\ KeyLess(k, end)}
      ord == Ordered(hit, reverse)
  IN [i \in 1..(IF Len(ord) < limit THEN Len(ord) ELSE limit) |->
        [key |-> ord[i], value |-> decode_value(store[ord[i]]),
         versionstamp |-> store[ord[i]].vs]]

\* ------------------------------------------------- the transaction's view
\* A statement that sees the committed row of k only, not what its own
\* transaction wrote before.
CommittedRowOnly(p, k) == kv[k]

\* What a statement of p's transaction sees for key k.
VisibleRow(p, k) == IF w[p].tx[k] # Untouched THEN w[p].tx[k] ELSE kv[k]

\* Another transaction holds the row (or the index entry) of k.
LockedByOther(p, k) == \E q \in Writers \ {p} : w[q].tx[k] # Untouched

\* The keys p's transaction has written and not deleted since.
Written(p) == {k \in KeySpace : w[p].tx[k] \notin {Untouched, NoRow}}

\* The caller's state once atomic_write has returned res: the transaction is
\* gone; `dirty` remembers whether a failed write had already written.
Returned(p, res) ==
  [IdleWriter EXCEPT !.pc = "done", !.result = res,
                     !.vs = IF res = "Some" THEN w[p].vs ELSE NoVs,
                     !.dirty = (res \notin {"Some", "None"}
                                  /\ (w[p].nmut > 0 \/ Len(w[p].enq) > 0))]

\* The tables after p's transaction commits.
Committed(p) ==
  << [k \in KeySpace |-> IF w[p].tx[k] # Untouched THEN w[p].tx[k] ELSE kv[k]],
     queue_messages \cup
       {[id |-> issued + i, payload |-> w[p].enq[i].payload,
         deadline |-> w[p].enq[i].deadline,
         backoff_schedule |-> w[p].enq[i].backoff_schedule,
         retry_count |-> 0] : i \in 1..Len(w[p].enq)} >>

\* A rollback that keeps what the transaction wrote.
RolledBackKeepsWrites(p) == Committed(p)

\* The tables after p's transaction is rolled back.
RolledBack(p) == <<kv, queue_messages>>

Abort(p, res) ==
  /\ w' = [w EXCEPT ![p] = Returned(p, res)]
  /\ kv' = RolledBack(p)[1]
  /\ queue_messages' = RolledBack(p)[2]
  /\ UNCHANGED <<queue_running, now, issued, c, key_watchers, streams, f>>

InTx(p) == w[p].pc \in {"check", "mutate", "upsert", "enqueue"}

\* ------------------------------------------------------------ atomic_write
\* conn.transaction()
Begin(p) ==
  /\ w[p].pc = "idle"
  /\ w' = [w EXCEPT ![p].pc = "check"]
  /\ UNCHANGED <<kv, queue_messages, queue_running, now, issued, c, key_watchers, streams, f>>

\* The comparison without its `else if current_versionstamp.is_some()` arm.
CheckFailsOnlyOnSome(row, check) ==
  check.some /\ ~(row # NoRow /\ row.vs = check.vs)

\* The check's comparison: TRUE when the write must return None.
CheckFails(row, check) ==
  IF check.some
    THEN ~(row # NoRow /\ row.vs = check.vs)
    ELSE row # NoRow

\* One turn of the loop over write.checks.
Check(p, check) ==
  /\ w[p].pc = "check"
  /\ Len(w[p].checks) < MaxChecks
  /\ IF CheckFails(VisibleRow(p, check.key), check)
       THEN /\ w' = [w EXCEPT ![p] =
                       [Returned(p, "None") EXCEPT !.checks = Append(w[p].checks, check)]]
            /\ kv' = RolledBack(p)[1]
            /\ queue_messages' = RolledBack(p)[2]
       ELSE /\ w' = [w EXCEPT ![p].checks = Append(@, check)]
            /\ UNCHANGED <<kv, queue_messages, key_watchers, streams, f>>
  /\ UNCHANGED <<queue_running, now, issued, c, key_watchers, streams, f>>

\* rand::thread_rng().fill_bytes(&mut versionstamp)
GenerateVersionstamp(p, vs) ==
  /\ w[p].pc = "check"
  /\ w' = [w EXCEPT ![p].pc = "mutate", ![p].vs = vs]
  /\ UNCHANGED <<kv, queue_messages, queue_running, now, issued, c, key_watchers, streams, f>>

CanMutate(p) == w[p].pc = "mutate" /\ w[p].nmut < MaxMutations

\* A Mutation of write.mutations: its kind, its key and its value (the operand
\* of a Sum, Min or Max; none for a Delete).
Mutation(kind, key, value) == [kind |-> kind, key |-> key, value |-> value]

\* The statement of mutation m fails, or its handler returns an error: `?`
\* ends atomic_write with it and the transaction is rolled back.
AbortOn(p, res, m) ==
  /\ w' = [w EXCEPT ![p] = [Returned(p, res) EXCEPT !.muts = Append(w[p].muts, m)]]
  /\ kv' = RolledBack(p)[1]
  /\ queue_messages' = RolledBack(p)[2]
  /\ UNCHANGED <<queue_running, now, issued, c, key_watchers, streams, f>>

\* The summary of the write so far: a single Sum, Min or Max with a u64
\* operand, or other.
OnlyAfter(p, kind, key, operand) ==
  IF w[p].nmut = 0 /\ kind \in {"Sum", "Min", "Max"} /\ operand.tag = "U64"
    THEN [kind |-> kind, key |-> key, x |-> operand.n]
    ELSE [kind |-> "other", key |-> << >>, x |-> 0]

\* MutationKind::Set: INSERT ... ON CONFLICT (key) DO UPDATE, expires_at
\* included.
MutateSet(p, key, value, expire_at) ==
  /\ CanMutate(p)
  /\ ~LockedByOther(p, key)
  /\ w' = [w EXCEPT ![p].tx[key] =
                      [MkRow(encode_value(value)[1], encode_value(value)[2], w[p].vs)
                         EXCEPT !.exp = expire_at],
                    ![p].nmut = @ + 1,
                    ![p].only = OnlyAfter(p, "Set", key, value),
                    ![p].muts = Append(@, Mutation("Set", key, value))]
  /\ UNCHANGED <<kv, queue_messages, queue_running, now, issued, c, key_watchers, streams, f>>

\* A Delete whose statement removes no row.
MutateDeleteNoRow(p, key) ==
  /\ CanMutate(p)
  /\ w' = [w EXCEPT ![p].nmut = @ + 1,
                    ![p].only = OnlyAfter(p, "Delete", key, U64(0)),
                    ![p].muts = Append(@, Mutation("Delete", key, U64(0)))]
  /\ UNCHANGED <<kv, queue_messages, queue_running, now, issued, c, key_watchers, streams, f>>

\* MutationKind::Delete: DELETE FROM kv_store WHERE key = $1
MutateDelete(p, key) ==
  /\ CanMutate(p)
  /\ VisibleRow(p, key) # NoRow => ~LockedByOther(p, key)
  /\ w' = [w EXCEPT ![p].tx[key] =
                      IF VisibleRow(p, key) # NoRow THEN NoRow ELSE @,
                    ![p].nmut = @ + 1,
                    ![p].only = OnlyAfter(p, "Delete", key, U64(0)),
                    ![p].muts = Append(@, Mutation("Delete", key, U64(0)))]
  /\ UNCHANGED <<kv, queue_messages, queue_running, now, issued, c, key_watchers, streams, f>>

\* MutationKind::SetSuffixVersionstampedKey: a plain INSERT of key ++ versionstamp
MutateSetSuffixVersionstampedKey(p, key, value) ==
  LET new_key == key \o w[p].vs IN
  /\ CanMutate(p)
  /\ ~LockedByOther(p, new_key)
  /\ IF VisibleRow(p, new_key) # NoRow
       THEN AbortOn(p, "DatabaseError",
                    Mutation("SetSuffixVersionstampedKey", key, value))
       ELSE /\ w' = [w EXCEPT ![p].tx[new_key] =
                        MkRow(encode_value(value)[1], encode_value(value)[2], w[p].vs),
                      ![p].nmut = @ + 1,
                      ![p].only = OnlyAfter(p, "SetSuffixVersionstampedKey", key, value),
                      ![p].muts = Append(@, Mutation("SetSuffixVersionstampedKey", key, value))]
            /\ UNCHANGED <<kv, queue_messages, queue_running, now, issued, c, key_watchers, streams, f>>

\* The arithmetic of handle_sum_mutation / handle_min_mutation / handle_max_mutation
\* on the stored word `current` and the operand word, both read as i64.
NumericResult(kind, current, operand) ==
  CASE kind = "Sum" -> AsI64(current) + AsI64(operand)
    [] kind = "Min" -> IF AsI64(current) <= AsI64(operand)
                         THEN AsI64(current) ELSE AsI64(operand)
    [] kind = "Max" -> IF AsI64(current) >= AsI64(operand)
                         THEN AsI64(current) ELSE AsI64(operand)

\* new_value of the handlers, as an i64 before wrapping: the row the SELECT
\* (WHERE key = $1 AND value_encoding = 2) returned, combined with the operand.
NewValue(kind, row, operand) ==
  IF row # NoRow /\ row.enc = 2 /\ Len(row.value) = WordLen
    THEN NumericResult(kind, FromLeBytes(row.value), operand)
    ELSE AsI64(operand)

\* `current_int + sum_value` leaves the i64 range.
Overflows(x) == x < I64Min \/ x > I64Max

\* handle_*_mutation that takes an operand that is not a u64 for a zero and
\* goes on to its upsert.
NumericRefuseNothing(p, kind, key, operand) ==
  /\ CanMutate(p)
  /\ encode_value(operand)[2] # 2
  /\ w' = [w EXCEPT ![p].pc = "upsert",
                    ![p].sel = [key |-> key, new |-> 0],
                    ![p].muts = Append(@, Mutation(kind, key, operand))]
  /\ UNCHANGED <<kv, queue_messages, queue_running, now, issued, c, key_watchers, streams, f>>

\* handle_*_mutation with an operand that is not a u64: refused before any
\* statement.
NumericRefuse(p, kind, key, operand) ==
  /\ CanMutate(p)
  /\ encode_value(operand)[2] # 2
  /\ AbortOn(p, "InvalidData", Mutation(kind, key, operand))

\* handle_*_mutation with a u64 operand, up to and including its SELECT.  The
\* addition of a Sum that leaves the i64 range wraps in a release build and
\* panics in a debug build.
NumericSelect(p, kind, key, operand) ==
  LET x == NewValue(kind, VisibleRow(p, key), operand.n) IN
  /\ CanMutate(p)
  /\ encode_value(operand)[2] = 2
  /\ \/ /\ w' = [w EXCEPT ![p].pc = "upsert",
                           ![p].sel = [key |-> key, new |-> AsU64(x)],
                           ![p].only = OnlyAfter(p, kind, key, operand),
                           ![p].muts = Append(@, Mutation(kind, key, operand))]
        /\ UNCHANGED <<kv, queue_messages, queue_running, now, issued, c, key_watchers, streams, f>>
     \/ /\ Overflows(x)
        /\ AbortOn(p, "Panic", Mutation(kind, key, operand))

\* The row the handlers' INSERT ... ON CONFLICT (key) DO UPDATE ... WHERE
\* kv_store.value_encoding = 2 leaves, given the row it finds.
UpsertedRow(row, new, vs) ==
  IF row = NoRow \/ row.enc = 2
    THEN [MkRow(ToLeBytes(new), 2, vs) EXCEPT !.exp = row.exp]
    ELSE row

\* handle_*_mutation's INSERT ... ON CONFLICT.
NumericUpsert(p) ==
  LET key == w[p].sel.key IN
  /\ w[p].pc = "upsert"
  /\ ~LockedByOther(p, key)
  /\ w' = [w EXCEPT ![p].pc = "mutate",
                    ![p].tx[key] = UpsertedRow(VisibleRow(p, key), w[p].sel.new, w[p].vs),
                    ![p].nmut = @ + 1,
                    ![p].sel = NoSel]
  /\ UNCHANGED <<kv, queue_messages, queue_running, now, issued, c, key_watchers, streams, f>>

\* One turn of the loop over write.enqueues: INSERT INTO queue_messages.  The
\* row's id (DEFAULT gen_random_uuid()) is read by nobody before the commit and
\* is given to the row there.
Enqueue(p, payload, deadline, backoff_schedule) ==
  /\ w[p].pc \in {"mutate", "enqueue"}
  /\ Len(w[p].enq) < MaxEnqueues
  /\ issued + Len(w[p].enq) < MaxMessages
  /\ w' = [w EXCEPT ![p].pc = "enqueue",
                    ![p].enq = Append(@, [payload |-> payload, deadline |-> deadline,
                                          backoff_schedule |-> backoff_schedule])]
  /\ UNCHANGED <<kv, queue_messages, queue_running, now, issued, c, key_watchers, streams, f>>

\* tx.commit() and Ok(Some(CommitResult { versionstamp }))
Commit(p) ==
  /\ w[p].pc \in {"mutate", "enqueue"}
  /\ issued + Len(w[p].enq) <= MaxMessages
  /\ kv' = Committed(p)[1]
  /\ queue_messages' = Committed(p)[2]
  /\ issued' = issued + Len(w[p].enq)
  /\ w' = [w EXCEPT ![p] = Returned(p, "Some")]
  /\ UNCHANGED <<queue_running, now, c, key_watchers, streams, f>>

\* tx.commit() fails after the server has committed: the connection is lost
\* before the answer to COMMIT arrives, `?` returns the error.
CommitLost(p) ==
  /\ w[p].pc \in {"mutate", "enqueue"}
  /\ issued + Len(w[p].enq) <= MaxMessages
  /\ kv' = Committed(p)[1]
  /\ queue_messages' = Committed(p)[2]
  /\ issued' = issued + Len(w[p].enq)
  /\ w' = [w EXCEPT ![p] = Returned(p, "DatabaseError")]
  /\ UNCHANGED <<queue_running, now, c, key_watchers, streams, f>>

\* Any awaited statement of the transaction fails (`?`): the connection is
\* lost, a deadlock is broken, the statement times out.
SqlError(p) ==
  /\ InTx(p)
  /\ Abort(p, "DatabaseError")

\* The caller takes the result; it may call atomic_write again.
Return(p) ==
  /\ w[p].pc = "done"
  /\ w' = [w EXCEPT ![p] = IdleWriter]
  /\ UNCHANGED <<kv, queue_messages, queue_running, now, issued, c, key_watchers, streams, f>>

\* ------------------------------------------------------------------- queue
\* A queue_running table without the primary key.
NoPrimaryKey(id) == FALSE

\* queue_running.message_id ... PRIMARY KEY: a committed lease row for this id
\* makes a second INSERT fail with a unique violation.
PkConflict(id) == \E r \in queue_running : r.message_id = id

\* `id NOT IN (SELECT message_id FROM queue_running)` on committed rows.
NotRunning(id) == \A r \in queue_running : r.message_id # id

\* The rows the SELECT of dequeue_next_message qualifies in its snapshot.
Eligible == {m \in queue_messages : m.deadline <= now /\ NotRunning(m.id)}

\* A scan without ORDER BY: the rows in any order.
OrderingsUnordered(S) ==
  {s \in [1..Cardinality(S) -> S] :
     \A i, j \in 1..Cardinality(S) : i # j => s[i] # s[j]}

\* ORDER BY deadline ASC: every order of the rows that agrees with it.
Orderings(S) ==
  {s \in [1..Cardinality(S) -> S] :
     /\ \A i, j \in 1..Cardinality(S) : i # j => s[i] # s[j]
     /\ \A i, j \in 1..Cardinality(S) : i < j => s[i].deadline <= s[j].deadline}

\* q's open transaction holds the row lock FOR UPDATE took on message id.
HoldsLock(q, id) == c[q].pc \in {"insert", "commit"} /\ c[q].sel.id = id
\* FOR UPDATE that takes no row lock.
RowNeverLocked(q, id) == FALSE
RowLocked(q, id) == \E o \in Consumers \ {q} : HoldsLock(o, id)

\* conn.transaction() and the start of the SELECT: the statement's snapshot.
DequeueSnapshot(q) ==
  /\ c[q].pc = "idle"
  /\ \E s \in Orderings(Eligible) :
       c' = [c EXCEPT ![q] = [IdleConsumer EXCEPT !.pc = "lock", !.snap = s]]
  /\ UNCHANGED <<kv, queue_messages, queue_running, now, issued, w, key_watchers, streams, f>>

\* SKIP LOCKED: the next qualified row is locked by another transaction, or
\* was deleted after the snapshot; the scan goes on to the row after it.
DequeueSkip(q) ==
  /\ c[q].pc = "lock"
  /\ c[q].snap # << >>
  /\ Head(c[q].snap) \notin queue_messages \/ RowLocked(q, Head(c[q].snap).id)
  /\ c' = [c EXCEPT ![q].snap = Tail(@)]
  /\ UNCHANGED <<kv, queue_messages, queue_running, now, issued, w, key_watchers, streams, f>>

\* FOR UPDATE ... LIMIT 1: the first row that can be locked is locked and
\* returned by query_opt.
DequeueLock(q) ==
  /\ c[q].pc = "lock"
  /\ c[q].snap # << >>
  /\ Head(c[q].snap) \in queue_messages
  /\ ~RowLocked(q, Head(c[q].snap).id)
  /\ c' = [c EXCEPT ![q].pc = "insert", ![q].sel = Head(c[q].snap), ![q].snap = << >>]
  /\ UNCHANGED <<kv, queue_messages, queue_running, now, issued, w, key_watchers, streams, f>>

\* query_opt finds no row: Ok(None).
DequeueNone(q) ==
  /\ c[q].pc = "lock"
  /\ c[q].snap = << >>
  /\ c' = [c EXCEPT ![q] = [IdleConsumer EXCEPT !.result = "None"]]
  /\ UNCHANGED <<kv, queue_messages, queue_running, now, issued, w, key_watchers, streams, f>>

\* INSERT INTO queue_running: refused when the primary key is taken.
DequeueInsert(q) ==
  /\ c[q].pc = "insert"
  /\ IF PkConflict(c[q].sel.id)
       THEN c' = [c EXCEPT ![q] = [IdleConsumer EXCEPT !.result = "DatabaseError"]]
       ELSE c' = [c EXCEPT ![q].pc = "commit"]
  /\ UNCHANGED <<kv, queue_messages, queue_running, now, issued, w, key_watchers, streams, f>>

\* tx.commit() and Ok(Some(PostgresMessageHandle { id, payload, .. }))
DequeueCommit(q) ==
  /\ c[q].pc = "commit"
  /\ queue_running' = queue_running \cup
       {[message_id |-> c[q].sel.id, deadline |-> c[q].sel.deadline]}
  /\ c' = [c EXCEPT ![q] = [IdleConsumer EXCEPT
                              !.pc = "holding",
                              !.handle = [id |-> c[q].sel.id,
                                          payload |-> c[q].sel.payload,
                                          last |-> "none", again |-> FALSE],
                              !.result = "Some"]]
  /\ UNCHANGED <<kv, queue_messages, now, issued, w, key_watchers, streams, f>>

\* An awaited statement of dequeue_next_message fails (`?`); the transaction
\* is rolled back when it is dropped.
DequeueError(q) ==
  /\ c[q].pc \in {"lock", "insert", "commit"}
  /\ c' = [c EXCEPT ![q] = [IdleConsumer EXCEPT !.result = "DatabaseError"]]
  /\ UNCHANGED <<kv, queue_messages, queue_running, now, issued, w, key_watchers, streams, f>>

\* A call of finish that returned Ok(()).
Finished(h) == h.last \in {"true:Ok", "false:Ok"}

\* A finish(false) that leaves queue_running as it is.
LeaseKept(id) == queue_running

\* queue_running after `DELETE FROM queue_running WHERE message_id = $1`.
LeaseDeleted(id) == {r \in queue_running : r.message_id # id}

\* PostgresMessageHandle::finish, one statement in autocommit.
\*   success: DELETE FROM queue_messages WHERE id = $1.  It waits for a row
\*     lock; queue_running.message_id REFERENCES queue_messages(id) has no
\*     ON DELETE action, so while a lease row names the message the DELETE is
\*     refused and nothing changes.
\*   otherwise: DELETE FROM queue_running WHERE message_id = $1.
Finish(q, success) ==
  LET id == c[q].handle.id IN
  /\ c[q].pc = "holding"
  /\ ~Finished(c[q].handle)
  /\ IF success
       THEN /\ ~RowLocked(q, id)
            /\ IF PkConflict(id) /\ \E m \in queue_messages : m.id = id
                 THEN /\ c' = [c EXCEPT ![q].handle.last = "true:Err"]
                      /\ UNCHANGED <<queue_messages, queue_running>>
                 ELSE /\ queue_messages' = {m \in queue_messages : m.id # id}
                      /\ c' = [c EXCEPT ![q].handle.last = "true:Ok"]
                      /\ UNCHANGED queue_running
       ELSE /\ queue_running' = LeaseDeleted(id)
            /\ c' = [c EXCEPT ![q].handle.last = "false:Ok"]
            /\ UNCHANGED queue_messages
  /\ UNCHANGED <<kv, now, issued, w, key_watchers, streams, f>>

\* finish is called once more on a handle on which it returned Ok, with the
\* same argument: the same statement again.
Refinish(q) ==
  LET id == c[q].handle.id IN
  /\ c[q].pc = "holding"
  /\ Finished(c[q].handle)
  /\ ~c[q].handle.again
  /\ IF c[q].handle.last = "true:Ok"
       THEN /\ ~RowLocked(q, id)
            /\ queue_messages' =
                 IF PkConflict(id) /\ \E m \in queue_messages : m.id = id
                   THEN queue_messages
                   ELSE {m \in queue_messages : m.id # id}
            /\ UNCHANGED queue_running
       ELSE /\ queue_running' = LeaseDeleted(id)
            /\ UNCHANGED queue_messages
  /\ c' = [c EXCEPT ![q].handle.again = TRUE]
  /\ UNCHANGED <<kv, now, issued, w, key_watchers, streams, f>>

\* self.pool.get() or the statement fails for a reason of the connection.
FinishError(q) ==
  /\ c[q].pc = "holding"
  /\ ~Finished(c[q].handle)
  /\ c' = [c EXCEPT ![q].handle.last = "Err"]
  /\ UNCHANGED <<kv, queue_messages, queue_running, now, issued, w, key_watchers, streams, f>>

\* The handle goes out of scope.  PostgresMessageHandle has no Drop impl:
\* nothing is sent to the database.
DropHandle(q) ==
  /\ c[q].pc = "holding"
  /\ c' = [c EXCEPT ![q] = IdleConsumer]
  /\ UNCHANGED <<kv, queue_messages, queue_running, now, issued, w, key_watchers, streams, f>>

\* Time passes.
Tick ==
  /\ now < MaxTime
  /\ now' = now + 1
  /\ UNCHANGED <<kv, queue_messages, queue_running, issued, w, c, key_watchers, streams, f>>

\* ------------------------------------------------------------------- pool
\* Stream st holds the session `conn` of its loop body: taken by pool.get()
\* before the first read of a round, in scope across `yield outputs` and the
\* waits on the subscriptions, dropped at the end of the body.
HoldsSession(st) ==
  \/ streams[st].pc \in {"yield", "wait"}
  \/ streams[st].pc = "sample" /\ streams[st].out # << >>

\* The facade's call holds the session of its attempt.
FacadeHoldsSession == f.pc \in {"validate", "run"}

\* The sessions of the pool that are out, and whether pool.get() finds one.
SessionsInUse ==
  Cardinality({st \in Streams : HoldsSession(st)}) + (IF FacadeHoldsSession THEN 1 ELSE 0)
SessionFree == SessionsInUse < max_connections

\* ------------------------------------------------------- notifier and watch
\* The receivers of key's channel, each named by its stream and its place in
\* the stream's subscriptions; their number is tokio's receiver_count.
Receivers(key) ==
  {<<st, i>> \in Streams \X (1..MaxWatchKeys) :
     i <= Len(streams[st].subs) /\ streams[st].subs[i].key = key}

\* A subscribe whose receiver has not seen the channel's current value.
subscribe_unseen(key) == [key |-> key, changed |-> TRUE]

\* PostgresNotifier::subscribe: the key gets a sender unless it has one; the new
\* receiver has seen the channel's current value.
subscribe(key) == [key |-> key, changed |-> FALSE]

\* Drop for PostgresKeySubscription with the count taken after this receiver is
\* gone: the entry is removed when no receiver of the key is left.
RECURSIVE DropFromAfterOwn(_, _, _)
DropFromAfterOwn(st, i, watchers) ==
  IF i > Len(streams[st].subs)
    THEN watchers
    ELSE LET key == streams[st].subs[i].key
             left == {r \in Receivers(key) : r[1] # st \/ r[2] >= i}
         IN DropFromAfterOwn(st, i + 1,
                     IF Cardinality(left) = 0 THEN watchers \ {key} ELSE watchers)

\* A drop that removes the key's entry whatever receivers are left.
DropOneAlways(st, i, watchers) == watchers \ {streams[st].subs[i].key}

\* Drop for PostgresKeySubscription, for the i-th subscription of stream st when
\* those before it in the Vec are gone: the entry is removed when this receiver
\* is the last one of the key (receiver_count() == 1).
DropOne(st, i, watchers) ==
  LET key == streams[st].subs[i].key
      left == {r \in Receivers(key) : r[1] # st \/ r[2] >= i}
  IN IF Cardinality(left) = 1 THEN watchers \ {key} ELSE watchers

\* The drop of the Vec of subscriptions of stream st from the i-th on, in the
\* order of the Vec.
RECURSIVE DropFrom(_, _, _)
DropFrom(st, i, watchers) ==
  IF i > Len(streams[st].subs)
    THEN watchers
    ELSE DropFrom(st, i + 1, DropOne(st, i, watchers))

\* Postgres::watch: the stream is made; nothing runs before it is polled.
Watch(st, keys) ==
  /\ streams[st].pc = "idle"
  /\ streams' = [streams EXCEPT ![st] = [IdleStream EXCEPT !.pc = "subscribe", !.keys = keys]]
  /\ UNCHANGED <<kv, queue_messages, queue_running, now, issued, w, c, key_watchers, f>>

\* One turn of `for key in &keys { subscriptions.push(notifier.subscribe(..)) }`.
WatchSubscribe(st) ==
  LET key == streams[st].keys[Len(streams[st].subs) + 1] IN
  /\ streams[st].pc = "subscribe"
  /\ key_watchers' = key_watchers \cup {key}
  /\ streams' = [streams EXCEPT
       ![st].subs = Append(@, subscribe(key)),
       ![st].pc = IF Len(streams[st].subs) + 1 = Len(streams[st].keys)
                    THEN "sample" ELSE "subscribe"]
  /\ UNCHANGED <<kv, queue_messages, queue_running, now, issued, w, c, f>>

\* The entry of a WatchKeyOutput::Changed: the first row of the read, or none.
Entry(rows) == IF rows = << >> THEN NoEntry ELSE rows[1]

\* What a sampling of the keys finds in the committed store.
Sampled(keys) ==
  [i \in 1..Len(keys) |-> Entry(read_range(kv, keys[i], keys[i] \o <<0>>, 1, FALSE))]

\* One turn of the sampling loop: read_range over [key, key ++ 0x00), limit 1.
WatchRead(st) ==
  LET i == Len(streams[st].out) + 1 IN
  /\ streams[st].pc = "sample"
  /\ streams[st].out = << >> => SessionFree
  /\ streams' = [streams EXCEPT
       ![st].out = Append(@, Sampled(streams[st].keys)[i]),
       ![st].pc = IF i = Len(streams[st].keys) THEN "yield" ELSE "sample"]
  /\ UNCHANGED <<kv, queue_messages, queue_running, now, issued, w, c, key_watchers, f>>

\* `yield outputs`: the consumer takes the snapshot and polls again.
WatchYield(st) ==
  /\ streams[st].pc = "yield"
  /\ streams' = [streams EXCEPT ![st].pc = "wait", ![st].last = streams[st].out,
                                ![st].out = << >>, ![st].i = 1]
  /\ UNCHANGED <<kv, queue_messages, queue_running, now, issued, w, c, key_watchers, f>>

\* One turn of `for subscription in &mut subscriptions {
\* subscription.wait_for_change().await }`: receiver.changed() returns once the
\* channel has a value this receiver has not seen, and marks it seen.
WatchWait(st) ==
  LET i == streams[st].i IN
  /\ streams[st].pc = "wait"
  /\ streams[st].subs[i].changed
  /\ streams' = [streams EXCEPT
       ![st].subs[i].changed = FALSE,
       ![st].i = IF i = Len(streams[st].subs) THEN 0 ELSE i + 1,
       ![st].pc = IF i = Len(streams[st].subs) THEN "sample" ELSE "wait"]
  /\ UNCHANGED <<kv, queue_messages, queue_running, now, issued, w, c, key_watchers, f>>

\* backend.pool.get() or read_range fails: the stream yields the error and
\* ends; its subscriptions are dropped.
WatchError(st) ==
  /\ streams[st].pc = "sample"
  /\ streams[st].out = << >> => SessionFree
  /\ key_watchers' = DropFrom(st, 1, key_watchers)
  /\ streams' = [streams EXCEPT ![st] = [IdleStream EXCEPT !.pc = "ended"]]
  /\ UNCHANGED <<kv, queue_messages, queue_running, now, issued, w, c, f>>

\* The consumer drops the stream.
WatchDrop(st) ==
  /\ streams[st].pc # "idle"
  /\ key_watchers' = DropFrom(st, 1, key_watchers)
  /\ streams' = [streams EXCEPT ![st] = IdleStream]
  /\ UNCHANGED <<kv, queue_messages, queue_running, now, issued, w, c, f>>

\* PostgresNotifier::notify_key_update: sender.send(()) marks the channel
\* changed for every receiver of the key; a key without a sender: nothing.
notify_key_update(key) ==
  /\ key \in key_watchers
  /\ streams' = [st \in Streams |->
       [streams[st] EXCEPT !.subs =
          [i \in 1..Len(streams[st].subs) |->
             IF streams[st].subs[i].key = key
               THEN [streams[st].subs[i] EXCEPT !.changed = TRUE]
               ELSE streams[st].subs[i]]]]
  /\ UNCHANGED <<kv, queue_messages, queue_running, now, issued, w, c, key_watchers, f>>

\* ------------------------------------------------------------------ facade
\* `for attempt in 0..3` of snapshot_read, atomic_write, dequeue_next_message.
MaxAttempts == 3
\* get_connection: get_connection_with_retry(&self.pool, 3)
max_retries == 3

\* The caller of the facade's atomic_write and of its dequeue_next_message.
FacadeWriter == "w1"
FacadeConsumer == "c1"

TransientCodes ==
  {"08003", "08006", "08001", "08004", "57P01", "57P02", "57P03", "53300"}
TransientMessages ==
  {"connection closed", "connection terminated", "connection reset",
   "broken pipe", "server closed the connection",
   "terminating connection because of crash"}

\* The errors met: a lost connection and a deadlock with their codes, a closed
\* connection and a timeout without one.
Errors ==
  {[code |-> "08006", msg |-> "connection failure"],
   [code |-> "40P01", msg |-> "deadlock detected"],
   [code |-> "", msg |-> "connection closed"],
   [code |-> "", msg |-> "timed out"]}

\* Postgres::is_transient_error: by the code when there is one, else by the
\* message.
is_transient_error(error) ==
  IF error.code # ""
    THEN error.code \in TransientCodes
    ELSE error.msg \in TransientMessages

ConnectionFailed(e) == [kind |-> "ConnectionFailed", cause |-> e]
DatabaseError(e) == [kind |-> "DatabaseError", cause |-> e]

\* PostgresError::is_transient: the classification of the error it was made
\* from.
is_transient(e) == is_transient_error(e.cause)

\* The facade's match with the retry of an Ok(None) added to it.
RetriedOrNone(res, e, attempt) ==
  /\ res = "None" \/ (res = "Err" /\ is_transient(e))
  /\ attempt < MaxAttempts - 1

\* The facade's match on the result of an attempt: `Ok(result) => return
\* Ok(result)`, `Err(e)` goes round again `if e.is_transient() && attempt < 2`.
Retried(res, e, attempt) ==
  /\ res = "Err"
  /\ is_transient(e)
  /\ attempt < MaxAttempts - 1

\* The call after an attempt ended with res (and with the error e when res is
\* "Err"): the sleep and the next turn of the loop, or the return.
Settled(res, e) ==
  LET met == IF res = "Err"
               THEN [f EXCEPT !.last_error = e, !.errors = @ + 1]
               ELSE f
  IN IF Retried(res, e, f.attempt)
       THEN [met EXCEPT !.pc = "acquire", !.attempt = @ + 1, !.inner = 0,
                        !.sleeps = @ + 1, !.outputs = << >>]
       ELSE [met EXCEPT !.pc = "done", !.result = res]

\* The ranges of a snapshot_read.
MaxLimit == 2
RangeBounds == KeySpace \cup {<<1>>}
Ranges ==
  [start : RangeBounds, end : RangeBounds, limit : 1..MaxLimit, reverse : BOOLEAN]

\* The caller calls snapshot_read(requests), atomic_write(write) or
\* dequeue_next_message().
FacadeCall(op, requests) ==
  /\ f.pc = "idle"
  /\ f' = [IdleFacade EXCEPT !.pc = "acquire", !.op = op, !.requests = requests]
  /\ UNCHANGED <<kv, queue_messages, queue_running, now, issued, w, c, key_watchers, streams>>

\* pool.get() gives a session; with none free it waits (the pool has no wait
\* timeout).
PoolGet ==
  /\ f.pc = "acquire"
  /\ SessionFree
  /\ f' = [f EXCEPT !.pc = "validate", !.acquired = @ + 1]
  /\ UNCHANGED <<kv, queue_messages, queue_running, now, issued, w, c, key_watchers, streams>>

\* pool.get() fails with e: get_connection_with_retry sleeps and goes round
\* again, whatever e is, or after its last attempt returns the error to the
\* facade's loop.
PoolGetError(e) ==
  /\ f.pc = "acquire"
  /\ SessionFree
  /\ f' = IF f.inner < max_retries - 1
            THEN [f EXCEPT !.acquired = @ + 1, !.errors = @ + 1,
                           !.last_error = ConnectionFailed(e),
                           !.sleeps = @ + 1, !.inner = @ + 1]
            ELSE [Settled("Err", ConnectionFailed(e)) EXCEPT !.acquired = @ + 1]
  /\ UNCHANGED <<kv, queue_messages, queue_running, now, issued, w, c, key_watchers, streams>>

\* conn.query_one("SELECT 1") succeeds: the attempt runs with this session.
Validate ==
  /\ f.pc = "validate"
  /\ f' = [f EXCEPT !.pc = "run"]
  /\ UNCHANGED <<kv, queue_messages, queue_running, now, issued, w, c, key_watchers, streams>>

\* conn.query_one("SELECT 1") fails with e.
ValidateError(e) ==
  /\ f.pc = "validate"
  /\ f' = IF is_transient_error(e) /\ f.inner < max_retries - 1
            THEN [f EXCEPT !.pc = "acquire", !.errors = @ + 1,
                           !.last_error = ConnectionFailed(e),
                           !.sleeps = @ + 1, !.inner = @ + 1]
            ELSE Settled("Err", ConnectionFailed(e))
  /\ UNCHANGED <<kv, queue_messages, queue_running, now, issued, w, c, key_watchers, streams>>

Running(op) == f.pc = "run" /\ f.op = op

\* One turn of `for request in &requests`: read_range gives the entries; after
\* the last request the call returns the outputs.
ReadRange ==
  LET r == f.requests[Len(f.outputs) + 1]
      out == Append(f.outputs, read_range(kv, r.start, r.end, r.limit, r.reverse))
  IN /\ Running("snapshot_read")
     /\ f' = IF Len(out) = Len(f.requests)
               THEN [Settled("Ok", NoError) EXCEPT !.outputs = out]
               ELSE [f EXCEPT !.outputs = out]
     /\ UNCHANGED <<kv, queue_messages, queue_running, now, issued, w, c, key_watchers, streams>>

\* read_range fails with e.
ReadRangeError(e) ==
  /\ Running("snapshot_read")
  /\ f' = Settled("Err", DatabaseError(e))
  /\ UNCHANGED <<kv, queue_messages, queue_running, now, issued, w, c, key_watchers, streams>>

\* backend.atomic_write has returned: Ok(Some(..)), Ok(None), or an error e.
AtomicWriteReturned(e) ==
  LET p == FacadeWriter IN
  /\ Running("atomic_write")
  /\ w[p].pc = "done"
  /\ f' = IF w[p].result \in {"Some", "None"}
            THEN Settled(w[p].result, NoError)
            ELSE Settled("Err", DatabaseError(e))
  /\ w' = [w EXCEPT ![p] = IdleWriter]
  /\ UNCHANGED <<kv, queue_messages, queue_running, now, issued, c, key_watchers, streams>>

\* backend.dequeue_next_message has returned.
DequeueReturned(e) ==
  LET q == FacadeConsumer IN
  /\ Running("dequeue_next_message")
  /\ c[q].pc = "idle"
  /\ c[q].result # "pending"
  /\ f' = IF c[q].result \in {"Some", "None"}
            THEN Settled(c[q].result, NoError)
            ELSE Settled("Err", DatabaseError(e))
  /\ c' = [c EXCEPT ![q] = IdleConsumer]
  /\ UNCHANGED <<kv, queue_messages, queue_running, now, issued, w, key_watchers, streams>>

\* The caller takes what the call returned.
FacadeReturn ==
  /\ f.pc = "done"
  /\ f' = IdleFacade
  /\ UNCHANGED <<kv, queue_messages, queue_running, now, issued, w, c, key_watchers, streams>>

\* ------------------------------------------------------------ specifications
Kinds == {"Sum", "Min", "Max"}
U64Operands == {x \in Operands : x.tag = "U64"}
BadOperands == Operands \ U64Operands

\* Callers whose writes check, set, delete, insert suffixed keys and enqueue.
WriterStep(p) ==
  \/ Begin(p)
  \/ \E ch \in Checks : Check(p, ch)
  \/ \E vs \in Versionstamps : GenerateVersionstamp(p, vs)
  \/ \E k \in WriteKeys, v \in SuffixValues : MutateSet(p, k, v, NoExpiry)
  \/ \E k \in WriteKeys : MutateDelete(p, k)
  \/ \E k \in SuffixPrefixes, v \in SuffixValues : MutateSetSuffixVersionstampedKey(p, k, v)
  \/ \E k \in WriteKeys, x \in BadOperands : NumericRefuse(p, "Sum", k, x)
  \/ \E pl \in Payloads, b \in BackoffSchedules : Enqueue(p, pl, 0, b)
  \/ Commit(p)
  \/ SqlError(p)
  \/ Return(p)

Next == \E p \in Writers : WriterStep(p)

Spec == Init /\ [][Next]_vars

\* Callers whose writes set, delete and apply Sum, Min and Max.
NumericStep(p) ==
  \/ Begin(p)
  \/ \E vs \in Versionstamps : GenerateVersionstamp(p, vs)
  \/ \E k \in WriteKeys, v \in SetValues : MutateSet(p, k, v, NoExpiry)
  \/ \E k \in WriteKeys : MutateDelete(p, k)
  \/ \E kind \in Kinds, k \in WriteKeys, x \in BadOperands : NumericRefuse(p, kind, k, x)
  \/ \E kind \in Kinds, k \in WriteKeys, x \in U64Operands : NumericSelect(p, kind, k, x)
  \/ NumericUpsert(p)
  \/ Commit(p)
  \/ SqlError(p)
  \/ Return(p)

NumericNext == \E p \in Writers : NumericStep(p)

NumericSpec == Init /\ [][NumericNext]_vars

\* One caller whose writes only enqueue, and the callers of
\* dequeue_next_message with the handles they get.
Producers == {"w1"}

ProducerStep(p) ==
  \/ Begin(p)
  \/ \E vs \in Versionstamps : GenerateVersionstamp(p, vs)
  \/ \E pl \in Payloads, d \in Deadlines, b \in BackoffSchedules : Enqueue(p, pl, d, b)
  \/ Commit(p)
  \/ SqlError(p)
  \/ Return(p)

DequeueStep(q) ==
  \/ DequeueSnapshot(q)
  \/ DequeueSkip(q)
  \/ DequeueLock(q)
  \/ DequeueNone(q)
  \/ DequeueInsert(q)
  \/ DequeueCommit(q)
  \/ DequeueError(q)

HandleStep(q) ==
  \/ \E success \in BOOLEAN : Finish(q, success)
  \/ FinishError(q)
  \/ DropHandle(q)

QueueNext ==
  \/ \E p \in Producers : ProducerStep(p)
  \/ \E q \in Consumers : DequeueStep(q)
  \/ \E q \in Consumers : HandleStep(q)
  \/ Tick

QueueSpec == Init /\ [][QueueNext]_vars

\* The queue with callers that call finish a second time.
RefinishNext ==
  \/ QueueNext
  \/ \E q \in Consumers : Refinish(q)

RefinishSpec == Init /\ [][RefinishNext]_vars

\* The SELECT of dequeue_next_message comes to its end: it skips a row, locks
\* one, or finds none.
DequeueSelect(q) == DequeueSkip(q) \/ DequeueLock(q) \/ DequeueNone(q)

\* dequeue_next_message keeps being called and none of its three statements
\* fails forever; handles are finished or dropped; time passes.
QueueFairness ==
  /\ \A q \in Consumers :
       /\ WF_vars(DequeueSnapshot(q))
       /\ SF_vars(DequeueSelect(q))
       /\ SF_vars(DequeueInsert(q))
       /\ SF_vars(DequeueCommit(q))
       /\ WF_vars(HandleStep(q))
  /\ WF_vars(Tick)

FairQueueSpec == QueueSpec /\ QueueFairness

\* The keys given to watch: the key the writes set, alone or with the key that
\* SetSuffixVersionstampedKey writes under the all-zero versionstamp.
WatchedKey == <<0>>
WatchedSuffixKey == <<0>> \o [i \in 1..VsLen |-> 0]
WatchKeyLists == {<<WatchedKey>>, <<WatchedKey, WatchedSuffixKey>>}

\* One caller of atomic_write, one stream of watch, and the notifier.
Watchers == {"s1"}

WatchWriterStep(p) ==
  \/ Begin(p)
  \/ \E vs \in Versionstamps : GenerateVersionstamp(p, vs)
  \/ \E k \in WriteKeys, v \in SuffixValues : MutateSet(p, k, v, NoExpiry)
  \/ \E k \in WriteKeys : MutateDelete(p, k)
  \/ Commit(p)
  \/ SqlError(p)
  \/ Return(p)

StreamStep(st) ==
  \/ \E keys \in WatchKeyLists : Watch(st, keys)
  \/ WatchSubscribe(st)
  \/ WatchRead(st)
  \/ WatchYield(st)
  \/ WatchWait(st)
  \/ WatchError(st)
  \/ WatchDrop(st)

WatchNext ==
  \/ \E p \in Producers : WatchWriterStep(p)
  \/ \E st \in Watchers : StreamStep(st)
  \/ \E k \in {WatchedKey, WatchedSuffixKey} : notify_key_update(k)

WatchSpec == Init /\ [][WatchNext]_vars

\* A stream that is polled goes on whenever it can.
WatchFairness ==
  \A st \in Watchers :
    /\ WF_vars(WatchSubscribe(st))
    /\ WF_vars(WatchRead(st))
    /\ WF_vars(WatchYield(st))
    /\ WF_vars(WatchWait(st))

FairWatchSpec == WatchSpec /\ WatchFairness


\* The streams of watch and the notifier alone: every stream is made over one
\* key, over two keys or over the same key twice, polled, and dropped.
DropKeyLists == WatchKeyLists \cup {<<WatchedKey, WatchedKey>>}

DropStep(st) ==
  \/ \E keys \in DropKeyLists : Watch(st, keys)
  \/ WatchSubscribe(st)
  \/ WatchRead(st)
  \/ WatchYield(st)
  \/ WatchWait(st)
  \/ WatchError(st)
  \/ WatchDrop(st)

DropNext ==
  \/ \E st \in Streams : DropStep(st)
  \/ \E k \in {WatchedKey, WatchedSuffixKey} : notify_key_update(k)

DropSpec == Init /\ [][DropNext]_vars

\* Two streams of watch over one key, the notifier, and calls of snapshot_read
\* on the facade, all on the one pool.
PoolStreamStep(st) ==
  \/ Watch(st, <<WatchedKey>>)
  \/ WatchSubscribe(st)
  \/ WatchRead(st)
  \/ WatchYield(st)
  \/ WatchWait(st)
  \/ WatchError(st)
  \/ WatchDrop(st)

\* The range [k, k ++ 0x00) of the watched key, limit 1.
WatchedRange ==
  [start |-> WatchedKey, end |-> WatchedSuffixKey, limit |-> 1, reverse |-> FALSE]

PoolNext ==
  \/ \E st \in Streams : PoolStreamStep(st)
  \/ notify_key_update(WatchedKey)
  \/ FacadeCall("snapshot_read", <<WatchedRange>>)
  \/ PoolGet
  \/ \E e \in Errors : PoolGetError(e)
  \/ Validate
  \/ \E e \in Errors : ValidateError(e)
  \/ ReadRange
  \/ \E e \in Errors : ReadRangeError(e)
  \/ FacadeReturn

PoolSpec == Init /\ [][PoolNext]_vars

\* Calls of snapshot_read with two requests, each the range of the watched key
\* or the whole key space, while another caller's writes set and delete that
\* key.
WholeRange ==
  [start |-> << >>, end |-> <<1>>, limit |-> MaxLimit, reverse |-> FALSE]

SnapshotWriterStep(p) ==
  \/ Begin(p)
  \/ \E vs \in Versionstamps : GenerateVersionstamp(p, vs)
  \/ \E v \in SuffixValues : MutateSet(p, WatchedKey, v, NoExpiry)
  \/ MutateDelete(p, WatchedKey)
  \/ Commit(p)
  \/ Return(p)

SnapshotNext ==
  \/ SnapshotWriterStep(FacadeWriter)
  \/ \E r1, r2 \in {WatchedRange, WholeRange} : FacadeCall("snapshot_read", <<r1, r2>>)
  \/ PoolGet
  \/ Validate
  \/ ReadRange
  \/ \E e \in Errors : ReadRangeError(e)
  \/ FacadeReturn

SnapshotSpec == Init /\ [][SnapshotNext]_vars

\* Calls of atomic_write on the facade with the write {mutations: [Set(k, v)],
\* enqueues: [one message]}, the same in every attempt (write.clone()), made
\* as long as no message was ever enqueued; a commit may succeed, fail, or
\* succeed with its answer lost.
RetryWriterStep(p) ==
  /\ Running("atomic_write")
  /\ \/ Begin(p)
     \/ \E vs \in Versionstamps : GenerateVersionstamp(p, vs)
     \/ w[p].nmut = 0 /\ \E v \in SuffixValues : MutateSet(p, WatchedKey, v, NoExpiry)
     \/ w[p].nmut = 1 /\ \E pl \in Payloads, b \in BackoffSchedules : Enqueue(p, pl, 0, b)
     \/ w[p].pc = "enqueue" /\ Commit(p)
     \/ w[p].pc = "enqueue" /\ CommitLost(p)
     \/ SqlError(p)

RetryNext ==
  \/ issued = 0 /\ FacadeCall("atomic_write", << >>)
  \/ PoolGet
  \/ Validate
  \/ RetryWriterStep(FacadeWriter)
  \/ \E e \in Errors : AtomicWriteReturned(e)
  \/ FacadeReturn

RetrySpec == Init /\ [][RetryNext]_vars

\* The facade: one call at a time; its attempts run backend.atomic_write as
\* the transaction of FacadeWriter, backend.dequeue_next_message as that of
\* FacadeConsumer.
FacadeWriterStep(p) ==
  /\ Running("atomic_write")
  /\ \/ Begin(p)
     \/ \E ch \in Checks : Check(p, ch)
     \/ \E vs \in Versionstamps : GenerateVersionstamp(p, vs)
     \/ \E k \in WriteKeys, v \in SuffixValues : MutateSet(p, k, v, NoExpiry)
     \/ \E k \in WriteKeys : MutateDelete(p, k)
     \/ \E k \in SuffixPrefixes, v \in SuffixValues : MutateSetSuffixVersionstampedKey(p, k, v)
     \/ Commit(p)
     \/ SqlError(p)

FacadeConsumerStep(q) ==
  /\ Running("dequeue_next_message")
  /\ \/ c[q].result = "pending" /\ DequeueSnapshot(q)
     \/ DequeueNone(q)
     \/ DequeueError(q)

FacadeNext ==
  \/ \E r \in Ranges : FacadeCall("snapshot_read", <<r>>)
  \/ FacadeCall("atomic_write", << >>)
  \/ FacadeCall("dequeue_next_message", << >>)
  \/ PoolGet
  \/ \E e \in Errors : PoolGetError(e)
  \/ Validate
  \/ \E e \in Errors : ValidateError(e)
  \/ ReadRange
  \/ \E e \in Errors : ReadRangeError(e)
  \/ FacadeWriterStep(FacadeWriter)
  \/ \E e \in Errors : AtomicWriteReturned(e)
  \/ FacadeConsumerStep(FacadeConsumer)
  \/ \E e \in Errors : DequeueReturned(e)
  \/ FacadeReturn

FacadeSpec == Init /\ [][FacadeNext]_vars

\* One caller at a time, whose writes set values of every variant, delete,
\* insert suffixed keys and apply Sum, Min and Max.
SerialValues ==
  {V8(<<0>>), V8(<<1, 0>>), Bytes(<<0>>), Bytes(<<1, 0>>)}
    \cup {U64(n) : n \in 0..(WordMod - 1)}

SerialStep(p) ==
  \/ Begin(p)
  \/ \E vs \in Versionstamps : GenerateVersionstamp(p, vs)
  \/ \E k \in WriteKeys, v \in SerialValues : MutateSet(p, k, v, NoExpiry)
  \/ \E k \in WriteKeys : MutateDelete(p, k)
  \/ \E k \in SuffixPrefixes, v \in SuffixValues : MutateSetSuffixVersionstampedKey(p, k, v)
  \/ \E kind \in Kinds, k \in WriteKeys, x \in U64Operands : NumericSelect(p, kind, k, x)
  \/ NumericUpsert(p)
  \/ Commit(p)
  \/ SqlError(p)
  \/ Return(p)

SerialNext == \E p \in Producers : SerialStep(p)

SerialSpec == Init /\ [][SerialNext]_vars


\* One caller whose writes set keys with and without an expire_at, and time.
ExpireAts == {NoExpiry} \cup 0..MaxTime

TtlStep(p) ==
  \/ Begin(p)
  \/ \E vs \in Versionstamps : GenerateVersionstamp(p, vs)
  \/ \E k \in WriteKeys, v \in SetValues, e \in ExpireAts : MutateSet(p, k, v, e)
  \/ \E k \in WriteKeys : MutateDelete(p, k)
  \/ Commit(p)
  \/ SqlError(p)
  \/ Return(p)

TtlNext ==
  \/ \E p \in Producers : TtlStep(p)
  \/ Tick

TtlSpec == Init /\ [][TtlNext]_vars

\* Time passes; no part of the program acts on its own.
FairTtlSpec == TtlSpec /\ WF_vars(Tick)

\* ------------------------------------------------------------------ claims
\* p's atomic_write commits in this step.
Commits(p) ==
  /\ w[p].pc \in {"mutate", "enqueue"}
  /\ w'[p].pc = "done"
  /\ w'[p].result = "Some"

\* p's atomic_write returns an error (or panics) in this step.
Fails(p) ==
  /\ InTx(p)
  /\ w'[p].pc = "done"
  /\ w'[p].result \notin {"Some", "None"}

\* p evaluates one more check in this step.
Checks1(p) ==
  /\ w[p].pc = "check"
  /\ Len(w'[p].checks) = Len(w[p].checks) + 1

\* The check holds of the committed row: its versionstamp is the expected one,
\* or there is no row and none is expected.
CheckHolds(row, check) ==
  IF check.some THEN row # NoRow /\ row.vs = check.vs ELSE row = NoRow

\* C1: a write that contains Check(k, e) commits only if, at the moment it
\* commits, the row of k has versionstamp e (k has no row when e = None); so two
\* concurrent writes that check the same versionstamp of k and set k cannot both
\* commit.
C1_CheckHoldsAtCommit ==
  [][\A p \in Writers :
       Commits(p) =>
         \A i \in 1..Len(w[p].checks) :
           CheckHolds(kv[w[p].checks[i].key], w[p].checks[i])]_vars

\* C2: a check that fails against the current row makes atomic_write return
\* None, not an error, and leaves kv_store, queue_messages and queue_running as
\* they were, with nothing of the write applied; a check that holds lets the
\* write go on.
C2_FailedCheckReturnsNone ==
  [][\A p \in Writers :
       Checks1(p) =>
         LET check == Last(w'[p].checks) IN
         IF CheckHolds(kv[check.key], check)
           THEN w'[p].pc = "check"
           ELSE /\ w'[p].pc = "done"
                /\ w'[p].result = "None"
                /\ w'[p].tx = EmptyTx
                /\ w'[p].enq = << >>
                /\ UNCHANGED <<kv, queue_messages, queue_running>>]_vars

\* A write has returned None on a check that expects no row while the row is
\* there, and one on a check that expects another versionstamp than the row's.
C2_Witness ==
  /\ \E p \in Writers :
       /\ w[p].pc = "done" /\ w[p].result = "None"
       /\ ~Last(w[p].checks).some
       /\ kv[Last(w[p].checks).key] # NoRow
  /\ \E p \in Writers :
       /\ w[p].pc = "done" /\ w[p].result = "None"
       /\ Last(w[p].checks).some
       /\ kv[Last(w[p].checks).key] # NoRow

C4_WrittenKeysCarryCommitVersionstamp ==
  [][\A p \in Writers :
       Commits(p) =>
         \A k \in Written(p) :
           LET out == read_range(kv', k, k \o <<0>>, 1, FALSE) IN
           /\ Len(out) = 1
           /\ out[1].key = k
           /\ out[1].versionstamp = w'[p].vs]_vars

\* C5: committed writes take effect one at a time: a write whose only mutation
\* is Sum(k, x) and that commits on a u64 row p leaves k = p + x, so that two
\* concurrent sums both count.
C5_CommittedSumAddsToCommittedValue ==
  [][\A p \in Writers :
       (Commits(p) /\ w[p].nmut = 1 /\ w[p].only.kind = "Sum"
          /\ kv[w[p].only.key].enc = 2) =>
         LET k == w[p].only.key IN
         /\ kv'[k].enc = 2
         /\ FromLeBytes(kv'[k].value)
              = (FromLeBytes(kv[k].value) + w[p].only.x) % WordMod]_vars

\* The signed 64-bit result of Sum, Min and Max on the words a and b, as a word.
SignedOp(kind, a, b) ==
  LET sa == IF a >= WordMod - (WordMod \div 2) THEN a - WordMod ELSE a
      sb == IF b >= WordMod - (WordMod \div 2) THEN b - WordMod ELSE b
  IN CASE kind = "Sum" -> (sa + sb) % WordMod
       [] kind = "Min" -> IF sa <= sb THEN a ELSE b
       [] kind = "Max" -> IF sa >= sb THEN a ELSE b

\* C6: when the first mutation of a write, a Sum, Min or Max with u64 operand x
\* on k, is applied: if k held a u64 row p just before, k holds f(p, x) on the
\* signed readings afterwards, as a u64 row of WordLen bytes; if k was absent,
\* it holds x.
C6_NumericMutationResult ==
  [][\A p \in Writers :
       (w[p].pc = "upsert" /\ w'[p].pc = "mutate" /\ w[p].only.kind \in Kinds) =>
         LET k == w[p].only.key
             before == VisibleRow(p, k)
             after == w'[p].tx[k]
         IN /\ before.enc = 2 =>
                 /\ after.enc = 2
                 /\ Len(after.value) = WordLen
                 /\ FromLeBytes(after.value)
                      = SignedOp(w[p].only.kind, FromLeBytes(before.value), w[p].only.x)
            /\ before = NoRow =>
                 /\ after.enc = 2
                 /\ FromLeBytes(after.value) = w[p].only.x]_vars

\* C7: a write whose only mutation is a Sum, Min or Max on k never commits
\* while k holds a row that is not a u64 and leaves that row as it was.
C7_NumericOnOtherTagNeverCommits ==
  [][\A p \in Writers :
       (Commits(p) /\ w[p].nmut = 1 /\ w[p].only.kind \in Kinds) =>
         ~(kv[w[p].only.key].enc \in {1, 3}
             /\ kv'[w[p].only.key] = kv[w[p].only.key])]_vars

\* q holds a handle on which no call of finish has returned Ok.
Live(q) == c[q].pc = "holding" /\ ~Finished(c[q].handle)

Due(id) == \E m \in queue_messages : m.id = id /\ m.deadline <= now

\* Some caller holds a handle of message id that dequeue_next_message returned.
Held(id) == \E q \in Consumers : c[q].pc = "holding" /\ c[q].handle.id = id

\* The messages that wait for a delivery: the deadline has passed and nobody
\* holds a handle (never delivered, or the handle of the last delivery was
\* finished without success, or was dropped without a call of finish).
Waiting == {id \in 1..MaxMessages : Due(id) /\ ~Held(id)}

\* C9: at-least-once delivery.  While dequeue_next_message keeps being called,
\* the deliveries do not stop as long as a message waits: whenever a message
\* waits, first delivery or redelivery, a dequeue eventually returns a message
\* (or no message waits any more).
C9_AtLeastOnceDelivery ==
  (Waiting # {}) ~> ((\E id \in 1..MaxMessages : Held(id)) \/ Waiting = {})

\* q's call finish(true) on the handle of a leased message returns in this step.
FinishTrueOnLeased(q) ==
  /\ Live(q)
  /\ PkConflict(c[q].handle.id)
  /\ c'[q].handle # c[q].handle
  /\ c'[q].handle.last \in {"true:Ok", "true:Err"}

\* C10: when finish(true) on the handle of a leased message has returned, the
\* message has no row in queue_messages and no lease row in queue_running.
C10_FinishTrueRemovesMessageAndLease ==
  [][\A q \in Consumers :
       FinishTrueOnLeased(q) =>
         /\ \A m \in queue_messages' : m.id # c[q].handle.id
         /\ \A r \in queue_running' : r.message_id # c[q].handle.id]_vars

\* q's call finish(false) on the handle of a leased message returns Ok in this
\* step.
FinishFalseOnLeased(q) ==
  /\ Live(q)
  /\ PkConflict(c[q].handle.id)
  /\ c'[q].handle.last = "false:Ok"

\* Some caller holds a handle of message id on which finish(false) returned Ok.
Released(id) ==
  \E q \in Consumers :
    c[q].pc = "holding" /\ c[q].handle.id = id /\ c[q].handle.last = "false:Ok"

\* Message id was released by finish(false) and has not been leased since.
AwaitsRetry(id) == Released(id) /\ NotRunning(id)

\* Some caller holds a live handle of message id that carries the payload of
\* the message's row.
Redelivered(id) ==
  \E q \in Consumers, m \in queue_messages :
    Live(q) /\ c[q].handle.id = id /\ m.id = id /\ c[q].handle.payload = m.payload

\* Another message than id is in queue_messages with a deadline that has passed.
OtherDue(id) == \E m \in queue_messages : m.id # id /\ m.deadline <= now

C12_FinishFalseAdvancesBackoff ==
  [][\A q \in Consumers :
       FinishFalseOnLeased(q) =>
         \A m \in queue_messages :
           (m.id = c[q].handle.id /\ m.retry_count < Len(m.backoff_schedule)) =>
             \E n \in queue_messages' :
               /\ n.id = m.id
               /\ n.retry_count = m.retry_count + 1
               /\ n.deadline = m.deadline + m.backoff_schedule[m.retry_count + 1]]_vars

\* C13: retries are capped: a message fails only a bounded number of times,
\* after which it is deleted; so from some moment on it never again waits, due,
\* for a retry after a finish(false).
C13_RetriesAreCapped ==
  \A id \in 1..MaxMessages : <>[]~(Due(id) /\ AwaitsRetry(id))

\* Stream st has yielded a snapshot and waits for a notification.
Parked(st) == streams[st].pc = "wait"

\* The snapshot st yielded last is not what a sampling of its keys finds now:
\* a write that mutates one of the keys has committed since.
Stale(st) == streams[st].last # Sampled(streams[st].keys)

\* C14: a stream that has yielded a snapshot and keeps being polled yields a new
\* snapshot after every committed write that mutates one of its keys: a stream
\* that waits while its last snapshot is out of date eventually stops waiting
\* and samples again.
C14_WatchYieldsAfterCommit ==
  \A st \in Streams : (Parked(st) /\ Stale(st)) ~> ~Parked(st)

\* The keys p's transaction has mutated.
Mutated(p) == {k \in KeySpace : w[p].tx[k] # Untouched}

\* C15: when an atomic_write commits, notify has been invoked for every key it
\* mutated, so that every receiver of such a key sees a change; a write that
\* returns None or an error leaves the receivers as they were.
C15_CommitNotifiesMutatedKeys ==
  [][\A p \in Writers :
       /\ Commits(p) =>
            \A k \in Mutated(p) \cap key_watchers :
              \A r \in Receivers(k) : streams'[r[1]].subs[r[2]].changed
       /\ (InTx(p) /\ w'[p].pc = "done" /\ w'[p].result # "Some") =>
            streams' = streams]_vars

\* C16: a stream over several keys that waits after a yield stops waiting and
\* samples again once a notification has arrived for any one of its keys.
C16_AnyKeyWakesWatch ==
  \A st \in Streams :
    (/\ Parked(st)
     /\ Len(streams[st].subs) > 1
     /\ \E i \in 1..Len(streams[st].subs) : streams[st].subs[i].changed)
      ~> ~Parked(st)

\* The call of the facade meets an error in this step.
Meets == f'.errors = f.errors + 1

\* C17: a call of snapshot_read, atomic_write or dequeue_next_message on the
\* facade makes at most 3 attempts in total, every call of pool.get() made for
\* it counted.
C17_AtMostThreeAttempts == f.acquired <= MaxAttempts

\* C18: an error that is not classified transient, from pool.get(), from the
\* validation or from the backend's operation, is returned on the attempt where
\* it occurs: the call ends with it, without a sleep.
C18_OnlyTransientErrorsRetry ==
  [][(Meets /\ ~is_transient(f'.last_error)) =>
       /\ f'.pc = "done"
       /\ f'.result = "Err"
       /\ f'.sleeps = f.sleeps]_vars

\* The backend's atomic_write has returned None to the facade's loop.
GotNone ==
  /\ Running("atomic_write")
  /\ w[FacadeWriter].pc = "done"
  /\ w[FacadeWriter].result = "None"

\* C19: when the backend's atomic_write returns None on some attempt, the facade
\* returns None from that attempt: no sleep, no further attempt.
C19_NoneIsNotRetried ==
  [][(GotNone /\ f' # f) =>
       /\ f'.pc = "done"
       /\ f'.result = "None"
       /\ f'.sleeps = f.sleeps
       /\ f'.attempt = f.attempt
       /\ f'.acquired = f.acquired]_vars

\* A None returned by the facade after pool.get() had failed once or more.
C19_Witness ==
  /\ f.pc = "done"
  /\ f.op = "atomic_write"
  /\ f.result = "None"
  /\ f.acquired > 1

\* Byte-lexicographic order, by the first position where a and b differ.
LexLess(a, b) ==
  \E i \in 1..(Len(b)) :
    /\ \A j \in 1..(i - 1) : j <= Len(a) /\ a[j] = b[j]
    /\ i = Len(a) + 1 \/ (i <= Len(a) /\ a[i] < b[i])

\* The stored keys k with start <= k < end.
InRange(r) ==
  {k \in KeySpace : kv[k] # NoRow /\ (r.start = k \/ LexLess(r.start, k))
                                  /\ LexLess(k, r.end)}

\* A snapshot_read of one range has returned its output.
HasRead == f.pc = "done" /\ f.op = "snapshot_read" /\ f.result = "Ok"

\* C20: read_range(start, end, limit, reverse) returns exactly the first
\* min(limit, n) of the n stored keys with start <= k < end, in scan order:
\* strictly increasing, or strictly decreasing when reverse; nothing when
\* start = end.
C20_ReadRangeReturnsFirstInRange ==
  HasRead =>
    LET r == f.requests[1]
        out == f.outputs[1]
        keys == {out[i].key : i \in 1..Len(out)}
        n == Cardinality(InRange(r))
    IN /\ Len(out) = IF r.limit < n THEN r.limit ELSE n
       /\ keys \subseteq InRange(r)
       /\ \A i \in 1..(Len(out) - 1) :
            IF r.reverse THEN LexLess(out[i + 1].key, out[i].key)
                         ELSE LexLess(out[i].key, out[i + 1].key)
       /\ \A k \in InRange(r) \ keys : \A j \in keys :
            IF r.reverse THEN LexLess(k, j) ELSE LexLess(j, k)
       /\ r.start = r.end => out = << >>

\* A reverse read of a range holding three keys, cut to two by the limit.
C20_Witness ==
  /\ HasRead
  /\ f.requests[1].reverse
  /\ Cardinality(InRange(f.requests[1])) = 3
  /\ Len(f.outputs[1]) = MaxLimit

\* The last mutation of p's write on key k, or none: a mutation on a suffixed
\* key is on the key it inserts.
OnKey(p, m) ==
  IF m.kind = "SetSuffixVersionstampedKey" THEN m.key \o w[p].vs ELSE m.key

LastOn(p, k) ==
  LET on == {i \in 1..Len(w[p].muts) : OnKey(p, w[p].muts[i]) = k} IN
  IF on = {} THEN Mutation("none", << >>, U64(0))
  ELSE w[p].muts[CHOOSE i \in on : \A j \in on : j <= i]

\* C21: after a committed Set(k, v), for v of each variant, the read of
\* [k, k ++ 0x00) with limit 1 returns exactly one entry: key k, value v with its
\* variant, and the versionstamp of the commit.
C21_SetThenReadRoundTrip ==
  [][\A p \in Writers : \A k \in WriteKeys :
       (Commits(p) /\ LastOn(p, k).kind = "Set") =>
         read_range(kv', k, k \o <<0>>, 1, FALSE)
           = << [key |-> k, value |-> LastOn(p, k).value,
                 versionstamp |-> w[p].vs] >>]_vars

\* The store holds value v for key k.
Holds(k, v) ==
  kv[k] # NoRow /\ decode_value(kv[k]) = v

\* A committed Set of a V8 value whose bytes are those of the encoding of the
\* u64 1: only the tag tells them apart.
C21_Witness ==
  /\ w["w1"].pc = "done"
  /\ w["w1"].result = "Some"
  /\ Holds(<<0>>, V8(<<1, 0>>))

\* The write of p under way has Delete(k) as its only mutation so far.
OnlyDelete(p, k) ==
  /\ w[p].pc = "mutate"
  /\ w[p].muts = << Mutation("Delete", k, U64(0)) >>

\* C22: a write whose only mutation is Delete(k) can commit whether or not k
\* exists, returns Some when it does, and right after it the read of
\* [k, k ++ 0x00) returns nothing while every other key is as before.
C22_DeleteOnlyCommits ==
  [][\A p \in Writers : \A k \in WriteKeys :
       OnlyDelete(p, k) =>
         /\ ENABLED Commit(p)
         /\ Commits(p) =>
              /\ w'[p].result = "Some"
              /\ read_range(kv', k, k \o <<0>>, 1, FALSE) = << >>
              /\ \A j \in KeySpace \ {k} : kv'[j] = kv[j]]_vars

\* A write that deletes a key that is not there, while another key is.
C22_Witness ==
  /\ OnlyDelete("w1", <<0>>)
  /\ kv[<<0>>] = NoRow
  /\ \E j \in KeySpace : kv[j] # NoRow

\* The versionstamps of the rows in the store: each was returned by the
\* committed write that wrote the row.
StoredVersionstamps == {kv[k].vs : k \in {j \in KeySpace : kv[j] # NoRow}}

Refinishes(q) ==
  /\ c[q].pc = "holding"
  /\ ~c[q].handle.again
  /\ c'[q].handle.again

\* C24: a second finish(s) on a handle leaves queue_messages and queue_running
\* as the first call left them and as they are by now; a repeated finish(false)
\* removes no lease that another caller obtained for the message in between.
C24_FinishIsIdempotent ==
  [][\A q \in Consumers :
       Refinishes(q) => UNCHANGED <<queue_messages, queue_running>>]_vars

\* The row of k has an expires_at that has passed, and the read of
\* [k, k ++ 0x00) returns it.
ExpiredAndRead(k) ==
  /\ kv[k] # NoRow
  /\ kv[k].exp # NoExpiry
  /\ kv[k].exp <= now
  /\ read_range(kv, k, k \o <<0>>, 1, FALSE) # << >>

\* C25: a row whose expire_at has passed is eventually no longer returned by
\* read_range.
C25_ExpiredRowsDisappear ==
  \A k \in WriteKeys : ExpiredAndRead(k) ~> ~ExpiredAndRead(k)

\* The step drops the subscriptions of stream st: the consumer drops the
\* stream, or the stream ends on an error.
DropsSubscriptions(st) == streams[st].subs # << >> /\ streams'[st].subs = << >>

\* The keys some stream still holds a subscription of.
SubscribedKeys ==
  {streams[st].subs[i].key : <<st, i>> \in
     {r \in Streams \X (1..MaxWatchKeys) : r[2] <= Len(streams[r[1]].subs)}}

Handles(p, m) ==
  /\ CanMutate(p)
  /\ m.kind \in Kinds
  /\ w'[p].muts = Append(w[p].muts, m)

\* The sum of the row p sees under the key of m and of the operand of m leaves
\* the i64 range.
SumOverflows(p, m) ==
  /\ m.kind = "Sum"
  /\ m.value.tag = "U64"
  /\ Overflows(NewValue("Sum", VisibleRow(p, m.key), m.value.n))

\* C27: a Sum whose signed sum overflows does not fail the write: the handler
\* goes on to store the sum wrapped to 64 bits.
C27_SumOverflowWraps ==
  [][\A p \in Writers : \A k \in WriteKeys : \A x \in U64Operands :
       (Handles(p, Mutation("Sum", k, x)) /\ SumOverflows(p, Mutation("Sum", k, x))) =>
         /\ w'[p].pc = "upsert"
         /\ w'[p].sel = [key |-> k,
                         new |-> AsU64(NewValue("Sum", VisibleRow(p, k), x.n))]]_vars

\* C28: a Sum, Min or Max whose operand is not a u64 ends the write with
\* InvalidData in the step that takes it up: nothing is written for it, the
\* transaction is rolled back and the committed store is as it was.
C28_NonU64OperandRefused ==
  [][\A p \in Writers : \A kind \in Kinds : \A k \in WriteKeys : \A x \in BadOperands :
       Handles(p, Mutation(kind, k, x)) =>
         /\ w'[p].pc = "done"
         /\ w'[p].result = "InvalidData"
         /\ w'[p].tx = EmptyTx
         /\ UNCHANGED <<kv, queue_messages, queue_running>>]_vars

\* C28 witness: a write has ended with InvalidData on a Min or Max whose
\* operand is a byte string, after an earlier mutation of the same write.
C28_Witness ==
  \E p \in Writers :
    /\ w[p].pc = "done"
    /\ w[p].result = "InvalidData"
    /\ Len(w[p].muts) = 2
    /\ w[p].muts[2].kind \in {"Min", "Max"}
    /\ w[p].muts[2].value.tag # "U64"

\* The step is p's second SetSuffixVersionstampedKey under the prefix k in one
\* write.
SecondSuffixed(p, k) ==
  /\ CanMutate(p)
  /\ \E i \in 1..Len(w[p].muts) :
       w[p].muts[i].kind = "SetSuffixVersionstampedKey" /\ w[p].muts[i].key = k
  /\ Len(w'[p].muts) = Len(w[p].muts) + 1
  /\ w'[p].muts[Len(w'[p].muts)].kind = "SetSuffixVersionstampedKey"
  /\ w'[p].muts[Len(w'[p].muts)].key = k

\* C29: a second SetSuffixVersionstampedKey under the same prefix in one write
\* does not fail the write, which goes on towards its commit.
C29_SuffixedTwiceCommits ==
  [][\A p \in Writers : \A k \in SuffixPrefixes :
       SecondSuffixed(p, k) => (w'[p].pc = "mutate" /\ w'[p].result = "pending")]_vars

\* The store after the statements of the one mutation m, run with versionstamp
\* vs on the store `rows`: the arms of `match &mutation.kind`.
ApplyMutation(rows, m, vs) ==
  CASE m.kind = "Set" ->
         [rows EXCEPT ![m.key] = MkRow(encode_value(m.value)[1], encode_value(m.value)[2], vs)]
    [] m.kind = "Delete" -> [rows EXCEPT ![m.key] = NoRow]
    [] m.kind = "SetSuffixVersionstampedKey" ->
         [rows EXCEPT ![m.key \o vs] =
            MkRow(encode_value(m.value)[1], encode_value(m.value)[2], vs)]
    [] m.kind \in Kinds ->
         [rows EXCEPT ![m.key] =
            UpsertedRow(rows[m.key], AsU64(NewValue(m.kind, rows[m.key], m.value.n)), vs)]

\* `for mutation in &write.mutations`: the mutations from the i-th on, one
\* after the other, each on the store the one before left.
RECURSIVE ApplyMutations(_, _, _, _)
ApplyMutations(rows, muts, i, vs) ==
  IF i > Len(muts)
    THEN rows
    ELSE ApplyMutations(ApplyMutation(rows, muts[i], vs), muts, i + 1, vs)

\* C30: the store a write commits is the store before it with the write's
\* mutations applied one after the other in input order, each to the store
\* the one before left.
C30_MutationsAppliedInOrder ==
  [][\A p \in Writers :
       Commits(p) => kv' = ApplyMutations(kv, w[p].muts, 1, w[p].vs)]_vars

\* C30 witness: a write about to commit has set k to the u64 1 and then added
\* 1 to it, and its transaction holds 2 for k.
C30_Witness ==
  /\ w["w1"].pc = "mutate"
  /\ w["w1"].muts = << Mutation("Set", <<0>>, U64(1)), Mutation("Sum", <<0>>, U64(1)) >>
  /\ w["w1"].tx[<<0>>].enc = 2
  /\ FromLeBytes(w["w1"].tx[<<0>>].value) = 2

\* q's dequeue_next_message commits its lease row in this step.
Leases(q) == c[q].pc = "commit" /\ c'[q].pc = "holding"

\* C31: every row of queue_running names a message that is in queue_messages,
\* and a lease row is committed only for a message that has none, so there is
\* at most one lease row per message.
C31_LeasesNameMessagesOnce ==
  /\ [](\A r \in queue_running : \E m \in queue_messages : m.id = r.message_id)
  /\ [][\A q \in Consumers : Leases(q) => ~PkConflict(c[q].sel.id)]_vars

\* C31 witness: finish(true) on a leased message was refused, and the lease
\* row and the message row are both there.
C31_Witness ==
  \E q \in Consumers :
    /\ c[q].pc = "holding"
    /\ c[q].handle.last = "true:Err"
    /\ PkConflict(c[q].handle.id)
    /\ \E m \in queue_messages : m.id = c[q].handle.id

\* The steps of q's call of dequeue_next_message: its SELECT takes its snapshot,
\* skips a row, locks a row, finds none.
TakesSnapshot(q) == c[q].pc = "idle" /\ c'[q].pc = "lock"
SkipsRow(q) == c[q].pc = "lock" /\ c'[q].pc = "lock" /\ c'[q].snap # c[q].snap
LocksRow(q) == c[q].pc = "lock" /\ c'[q].pc = "insert"
ReturnsNone(q) == c[q].pc = "lock" /\ c'[q].pc = "idle" /\ c'[q].result = "None"

Surviving ==
  {r \in Streams \X (1..MaxWatchKeys) :
     r[2] <= Len(streams[r[1]].subs) /\ r[2] <= Len(streams'[r[1]].subs)}

\* The step wakes a subscription of key k: its receiver had seen the channel's
\* value and has not seen it now.
Wakes(k) ==
  \E r \in Surviving :
    /\ streams[r[1]].subs[r[2]].key = k
    /\ ~streams[r[1]].subs[r[2]].changed
    /\ streams'[r[1]].subs[r[2]].changed

\* Stream st makes one more subscription in this step.
Subscribes(st) == Len(streams'[st].subs) = Len(streams[st].subs) + 1

\* The wait of stream st on the subscription it waits on returns in this step.
WaitReturns(st) ==
  /\ streams[st].pc = "wait"
  /\ streams'[st].pc \in {"wait", "sample"}
  /\ streams'[st].i # streams[st].i

\* C33: the subscriptions of a key share its channel.  A new subscription has
\* seen the channel's value, so its wait needs a notify; a notify of k wakes
\* every subscription of k there is and none of another key; a subscription
\* that was woken stays so until its own wait returns, whether or not its
\* stream was waiting when the notify came; and a wait returns exactly when
\* its subscription has been woken, which it then is no more.
C33_WaitReturnsAfterNotify ==
  [][/\ \A st \in Streams :
          /\ Subscribes(st) =>
               /\ ~streams'[st].subs[Len(streams'[st].subs)].changed
               /\ \A r \in Surviving :
                    streams'[r[1]].subs[r[2]] = streams[r[1]].subs[r[2]]
          /\ WaitReturns(st) =>
               /\ streams[st].subs[streams[st].i].changed
               /\ ~streams'[st].subs[streams[st].i].changed
          /\ streams[st].pc = "wait" =>
               (ENABLED WatchWait(st) <=> streams[st].subs[streams[st].i].changed)
     /\ \A k \in {WatchedKey, WatchedSuffixKey} :
          Wakes(k) =>
            \A r \in Surviving :
              IF streams[r[1]].subs[r[2]].key = k
                THEN streams'[r[1]].subs[r[2]].changed
                ELSE streams'[r[1]].subs[r[2]] = streams[r[1]].subs[r[2]]
     /\ \A r \in Surviving :
          (streams[r[1]].subs[r[2]].changed /\ ~streams'[r[1]].subs[r[2]].changed) =>
            (WaitReturns(r[1]) /\ streams[r[1]].i = r[2])]_vars

\* C33 witness: both streams subscribe to the same key; a notify came while
\* one waited and the other was sampling, and both are woken; the subscription
\* of the other key is not.
C33_Witness ==
  /\ streams["s1"].pc = "wait"
  /\ streams["s1"].keys = <<WatchedKey, WatchedSuffixKey>>
  /\ streams["s1"].i = 1
  /\ streams["s1"].subs[1].changed
  /\ ~streams["s1"].subs[2].changed
  /\ streams["s2"].pc = "sample"
  /\ streams["s2"].keys = <<WatchedKey>>
  /\ streams["s2"].subs[1].changed

\* Each of the subscriptions of stream st from the i-th on, dropped in the
\* order of the Vec, finds the entry of its key in the map (the Occupied arm).
RECURSIVE FindsEntry(_, _, _)
FindsEntry(st, i, watchers) ==
  IF i > Len(streams[st].subs)
    THEN TRUE
    ELSE /\ streams[st].subs[i].key \in watchers
         /\ FindsEntry(st, i + 1, DropOne(st, i, watchers))

C35_ParkedStreamsHoldNoSession ==
  /\ \A st \in Streams : Parked(st) => ~HoldsSession(st)
  /\ f.pc = "acquire" =>
       (SessionFree \/ \E st \in Streams : HoldsSession(st) /\ ~Parked(st))

\* C36: a snapshot_read returns one output per request, and its outputs are
\* reads of one committed state: when the call asked for the same range twice,
\* its two outputs are equal.
C36_RangesSeeOneState ==
  (f.pc = "done" /\ f.op = "snapshot_read" /\ f.result = "Ok") =>
    /\ Len(f.outputs) = Len(f.requests)
    /\ \A i, j \in 1..Len(f.requests) :
         f.requests[i] = f.requests[j] => f.outputs[i] = f.outputs[j]

\* C37: one call of atomic_write applies its write at most once.  The write of
\* every call enqueues one message and calls are made only while no message
\* was ever enqueued, so the number of messages issued is the number of times
\* the write of one call was committed.
C37_WriteAppliedAtMostOnce == issued <= 1

====
